---------------------------- MODULE Spec2Model ----------------------------
(***************************************************************************)
(* The quark/gluon jet classification notebook QG_demo.ipynb as a state    *)
(* machine.  The state is the kernel's namespace (data, df_, train_x,      *)
(* train_y, test, class_weights, the Keras model, fpr/tpr/roc_auc) plus    *)
(* the position of the run in the notebook; there is one action per code   *)
(* cell, and the 20 training epochs of model.fit are single steps.         *)
(*                                                                         *)
(* Conventions.  A DataFrame is a sequence of records that carry their     *)
(* index label in the field idx.  A missing value is NaN.  A real number   *)
(* is a pair <<numerator, denominator>>; a zero denominator is the float   *)
(* nan (0/0).  A predicted score is kept in hundredths (97 is 0.97).  The  *)
(* network is abstracted by its parameters' provenance (the random initial *)
(* draw and the number of optimizer updates applied) and a fixed table     *)
(* from that provenance and the input features to a sigmoid output.        *)
(***************************************************************************)
EXTENDS Integers, Sequences, FiniteSets, TLC

VARIABLES
    resource,       \* the remote CSV: reachable or not, well-formed or not, its rows
    file,           \* small_10K.csv on local storage, written by wget.download
    data,           \* cell 4: the parsed DataFrame
    df_,            \* cell 6: the selected and cleaned DataFrame
    train_idx,      \* cell 10, line 155: index labels of the Train DataFrame
    train_x,        \* cell 10, line 157: Train feature matrix
    train_y,        \* cell 10, line 156: Train labels
    test,           \* cell 10: the Test DataFrame; cell 14 adds 'predictions'
    class_weights,  \* cell 10, lines 161-162
    classifier,     \* life cycle of the Keras model
    params,         \* trainable parameters of the Keras model
    epoch,          \* epochs of model.fit completed
    hist,           \* cell 14: the two score histograms (bin counts)
    roc,            \* cell 15: fpr, tpr, roc_auc and the saved plot
    warnings,       \* warnings issued so far
    error,          \* the exception that stopped the run, or "none"
    executed,       \* the code cells started so far, in order
    pc              \* the next code cell

vars == <<resource, file, data, df_, train_idx, train_x, train_y, test,
          class_weights, classifier, params, epoch, hist, roc, warnings,
          error, executed, pc>>

---------------------------------------------------------------------------
(* Bounds of the model *)

MaxRows == 7

MaxMissing == 1

InitSeeds == {0, 1}

---------------------------------------------------------------------------
(* Values *)

NaN == -1

Features == <<"QG_mult", "QG_ptD", "QG_axis2">>

Columns == {"QG_mult", "QG_ptD", "QG_axis2", "target"}

Range(s) == {s[i] : i \in DOMAIN s}

RECURSIVE SumSeq(_)
SumSeq(s) == IF s = <<>> THEN 0 ELSE Head(s) + SumSeq(Tail(s))

Count(s, v) == Cardinality({i \in DOMAIN s : s[i] = v})

CeilDiv(a, b) == (a + b - 1) \div b

(* Rows of the CSV, restricted to the four columns the notebook reads. *)
RawRow(m, p, a, g) == [QG_mult |-> m, QG_ptD |-> p, QG_axis2 |-> a, isPhysG |-> g]

CompleteRows == {RawRow(0, 0, 0, 0), RawRow(1, 0, 0, 1)}

IncompleteRows == {RawRow(NaN, 0, 0, 0), RawRow(1, NaN, 0, 1), RawRow(0, 0, 0, NaN)}

Datasets ==
    UNION {{s \in [1..n -> CompleteRows \cup IncompleteRows] :
               Cardinality({i \in 1..n : s[i] \in IncompleteRows}) <= MaxMissing}
           : n \in 0..MaxRows}

Resources ==
    {[status |-> "ok", rows |-> d] : d \in Datasets}
      \cup {[status |-> "unreachable", rows |-> <<>>],
            [status |-> "malformed", rows |-> <<>>]}

---------------------------------------------------------------------------
(* Control *)

TestSizePercent == 15

RandomState == 42

Epochs == 20

BatchSize == 1024

ValidationSplitPercent == 10

CellOrder == <<"cell2", "cell4", "cell6", "cell8", "cell10", "cell11",
               "cell12", "cell14", "cell15">>

(* The cell after c, "done" after the last. *)
NextCell(c) ==
    LET i == CHOOSE k \in DOMAIN CellOrder : CellOrder[k] = c
    IN  IF i = Len(CellOrder) THEN "done" ELSE CellOrder[i + 1]

(* An exception in a cell stops the run: the position stays at the cell. *)
Raise(e) ==
    /\ error' = e
    /\ pc' = pc

RunningIgnoringErrors(c) == pc = c

(* Cells run top to bottom, and the first exception ends the run *)
Running(c) ==
    /\ pc = c
    /\ error = "none"

NoModel == [theta |-> 0, updates |-> 0]

NoRoc == [fpr |-> <<>>, tpr |-> <<>>, roc_auc |-> <<0, 1>>, saved |-> FALSE]

Undefined == [kind |-> "undefined", w |-> <<>>]

Init ==
    /\ resource \in Resources
    /\ file = [present |-> FALSE, wellformed |-> FALSE, rows |-> <<>>]
    /\ data = <<>>
    /\ df_ = <<>>
    /\ train_idx = <<>>
    /\ train_x = <<>>
    /\ train_y = <<>>
    /\ test = <<>>
    /\ class_weights = Undefined
    /\ classifier = "Uninitialized"
    /\ params = NoModel
    /\ epoch = 0
    /\ hist = <<>>
    /\ roc = NoRoc
    /\ warnings = {}
    /\ error = "none"
    /\ executed = <<>>
    /\ pc = "cell2"

---------------------------------------------------------------------------
(* Cell 2: wget.download *)

Download ==
    /\ Running("cell2")
    /\ executed' = Append(executed, "cell2")
    /\ IF resource.status = "unreachable"
         THEN /\ Raise("URLError")
              /\ file' = file
         ELSE /\ file' = [present |-> TRUE,
                          wellformed |-> resource.status = "ok",
                          rows |-> resource.rows]
              /\ pc' = NextCell("cell2")
              /\ error' = error
    /\ UNCHANGED <<resource, data, df_, train_idx, train_x, train_y, test,
                   class_weights, classifier, params, epoch, hist, roc, warnings>>

(* Cell 4: pd.read_csv *)

ReadCsv ==
    /\ Running("cell4")
    /\ executed' = Append(executed, "cell4")
    /\ IF ~file.wellformed
         THEN /\ Raise("ParserError")
              /\ data' = data
         ELSE /\ data' = [i \in DOMAIN file.rows |->
                            [idx |-> i,
                             QG_mult |-> file.rows[i].QG_mult,
                             QG_ptD |-> file.rows[i].QG_ptD,
                             QG_axis2 |-> file.rows[i].QG_axis2,
                             isPhysG |-> file.rows[i].isPhysG]]
              /\ pc' = NextCell("cell4")
              /\ error' = error
    /\ UNCHANGED <<resource, file, df_, train_idx, train_x, train_y, test,
                   class_weights, classifier, params, epoch, hist, roc, warnings>>

---------------------------------------------------------------------------
(* Cell 6: feature selection and dropna *)

(* data[['QG_mult','QG_ptD','QG_axis2']].copy() with df_['target'] = data['isPhysG'] *)
SelectFeatures(d) ==
    [i \in DOMAIN d |->
        [idx |-> d[i].idx,
         QG_mult |-> d[i].QG_mult,
         QG_ptD |-> d[i].QG_ptD,
         QG_axis2 |-> d[i].QG_axis2,
         target |-> d[i].isPhysG]]

HasNaN(r) == \E c \in Columns : r[c] = NaN

DropnaSubset(d) ==
    LET keep(r) == r.QG_ptD # NaN IN SelectSeq(d, keep)

(* DataFrame.dropna(): drops every row with a missing value in any column *)
Dropna(d) ==
    LET keep(r) == ~HasNaN(r) IN SelectSeq(d, keep)

Clean ==
    /\ Running("cell6")
    /\ executed' = Append(executed, "cell6")
    /\ df_' = Dropna(SelectFeatures(data))
    /\ pc' = NextCell("cell6")
    /\ UNCHANGED <<resource, file, data, train_idx, train_x, train_y, test,
                   class_weights, classifier, params, epoch, hist, roc, warnings,
                   error>>

(* Cell 8: the feature histograms are display only *)

PlotFeatures ==
    /\ Running("cell8")
    /\ executed' = Append(executed, "cell8")
    /\ pc' = NextCell("cell8")
    /\ UNCHANGED <<resource, file, data, df_, train_idx, train_x, train_y, test,
                   class_weights, classifier, params, epoch, hist, roc, warnings,
                   error>>

---------------------------------------------------------------------------
(* Cell 10: train_test_split, class weights *)

(* The permutation of 0..n-1 that numpy's generator seeded with RandomState
   yields: the Fisher-Yates shuffle driven by the Mersenne Twister, tabulated for
   the sizes the model reaches (n = 10 is the familiar [8 1 5 0 7 2 9 4 3 6]). *)
Permutation(n) ==
    CASE n = 0 -> <<>>
      [] n = 1 -> <<0>>
      [] n = 2 -> <<1, 0>>
      [] n = 3 -> <<0, 1, 2>>
      [] n = 4 -> <<1, 3, 0, 2>>
      [] n = 5 -> <<1, 4, 2, 0, 3>>
      [] n = 6 -> <<0, 1, 5, 2, 4, 3>>
      [] n = 7 -> <<0, 1, 5, 2, 4, 3, 6>>
      [] n = 8 -> <<1, 5, 0, 7, 2, 4, 3, 6>>
      [] n = 9 -> <<7, 1, 5, 0, 8, 2, 4, 3, 6>>
      [] n = 10 -> <<8, 1, 5, 0, 7, 2, 9, 4, 3, 6>>

(* n_test = ceil(test_size * n_samples), n_train = n_samples - n_test *)
NTest(n) == CeilDiv(TestSizePercent * n, 100)

NTrain(n) == n - NTest(n)

(* DataFrame.iloc[indices] *)
Take(d, positions) == [k \in DOMAIN positions |-> d[positions[k] + 1]]

TrainTestSplitOverlap(d) ==
    LET n == Len(d)
        perm == Permutation(n)
    IN  [train |-> Take(d, SubSeq(perm, NTest(n), n)),
         test |-> Take(d, SubSeq(perm, 1, NTest(n)))]

(* train_test_split(df_, test_size=0.15, random_state=42): the first n_test
   entries of the permutation are Test, the following n_train are Train *)
TrainTestSplit(d) ==
    LET n == Len(d)
        perm == Permutation(n)
    IN  [train |-> Take(d, SubSeq(perm, NTest(n) + 1, n)),
         test |-> Take(d, SubSeq(perm, 1, NTest(n)))]

FeatureMatrix(d) == [i \in DOMAIN d |-> [c \in Range(Features) |-> d[i][c]]]

Targets(d) == [i \in DOMAIN d |-> d[i].target]

(* np.unique: the sorted distinct values *)
RECURSIVE SortedSeq(_)
SortedSeq(S) ==
    IF S = {} THEN <<>>
    ELSE LET m == CHOOSE x \in S : \A y \in S : x <= y
         IN  <<m>> \o SortedSeq(S \ {m})

Unique(y) == SortedSeq(Range(y))

ComputeClassWeightByFrequency(classes, y) ==
    [k \in DOMAIN classes |-> <<Len(classes) * Count(y, classes[k]), Len(y)>>]

(* compute_class_weight('balanced'): n_samples / (n_classes * bincount(y)) *)
ComputeClassWeight(classes, y) ==
    [k \in DOMAIN classes |-> <<Len(y), Len(classes) * Count(y, classes[k])>>]

ClassWeightDictOfPresent(w) ==
    [kind |-> "dict", w |-> [i \in 0..(Len(w) - 1) |-> w[i + 1]]]

(* {i : class_weights[i] for i in range(2)}: IndexError on an array shorter than 2 *)
ClassWeightDict(w) ==
    IF Len(w) < 2
      THEN [kind |-> "IndexError", w |-> w]
      ELSE [kind |-> "dict", w |-> [i \in 0..1 |-> w[i + 1]]]

SplitAndWeight ==
    /\ Running("cell10")
    /\ executed' = Append(executed, "cell10")
    /\ IF NTrain(Len(df_)) = 0
         THEN /\ Raise("ValueError")
              /\ UNCHANGED <<train_idx, train_x, train_y, test, class_weights>>
         ELSE LET s == TrainTestSplit(df_)
                  y == Targets(s.train)
                  w == ComputeClassWeight(Unique(y), y)
                  cw == ClassWeightDict(w)
              IN  /\ train_idx' = [i \in DOMAIN s.train |-> s.train[i].idx]
                  /\ train_y' = y
                  /\ train_x' = FeatureMatrix(s.train)
                  /\ test' = s.test
                  /\ IF cw.kind = "dict"
                       THEN /\ class_weights' = cw
                            /\ pc' = NextCell("cell10")
                            /\ error' = error
                       ELSE /\ class_weights' = [kind |-> "array", w |-> w]
                            /\ Raise(cw.kind)
    /\ UNCHANGED <<resource, file, data, df_, classifier, params, epoch, hist,
                   roc, warnings>>

---------------------------------------------------------------------------
(* Cell 11: the network and compile *)

DefineAndCompile ==
    /\ Running("cell11")
    /\ executed' = Append(executed, "cell11")
    /\ \E seed \in InitSeeds : params' = [theta |-> seed, updates |-> 0]
    /\ classifier' = "Compiled"
    /\ pc' = NextCell("cell11")
    /\ UNCHANGED <<resource, file, data, df_, train_idx, train_x, train_y, test,
                   class_weights, epoch, hist, roc, warnings, error>>

---------------------------------------------------------------------------
(* Cell 12: model.fit *)

(* validation_split=0.1: the first floor(0.9 n) samples are fitted *)
SplitAt(n) == ((100 - ValidationSplitPercent) * n) \div 100

StepsPerEpoch(n) == CeilDiv(SplitAt(n), BatchSize)

FitBegin ==
    /\ Running("cell12")
    /\ executed' = Append(executed, "cell12")
    /\ epoch' = 0
    /\ pc' = "cell12_epochs"
    /\ UNCHANGED <<resource, file, data, df_, train_idx, train_x, train_y, test,
                   class_weights, classifier, params, hist, roc, warnings, error>>

EpochsOneShort == Epochs - 1

(* epochs=20; the only callback is the progress bar, which never stops training *)
EpochsToRun == Epochs

FitEpoch ==
    /\ Running("cell12_epochs")
    /\ epoch < EpochsToRun
    /\ epoch' = epoch + 1
    /\ params' = [params EXCEPT !.updates = @ + StepsPerEpoch(Len(train_x))]
    /\ UNCHANGED <<resource, file, data, df_, train_idx, train_x, train_y, test,
                   class_weights, classifier, hist, roc, warnings, error,
                   executed, pc>>

FitReturn ==
    /\ Running("cell12_epochs")
    /\ epoch >= EpochsToRun
    /\ classifier' = "Trained"
    /\ pc' = NextCell("cell12")
    /\ UNCHANGED <<resource, file, data, df_, train_idx, train_x, train_y, test,
                   class_weights, params, epoch, hist, roc, warnings, error,
                   executed>>

---------------------------------------------------------------------------
(* Cell 14: model.predict and the score histograms *)

ScoreScale == 100

(* Outputs of the sigmoid unit, in hundredths; 100 is the float saturation of
   the sigmoid *)
SigmoidLevels == <<50, 30, 2, 97, 100>>

(* The network as a function of its parameters and one feature row.  The
   initial draw decides what training arrives at: draw 0 ends in a network that
   ignores its input (every score 0.50), draw 1 in one that separates by
   multiplicity (0.30 against 0.97). *)
Forward(p, x) ==
    SigmoidLevels[((p.theta + p.updates + 2 * p.theta * x.QG_mult)
                      % Len(SigmoidLevels)) + 1]

PredictGuarded(state, p, X) ==
    IF state \in {"Uninitialized", "Compiled"}
      THEN [error |-> "StateError", scores |-> <<>>]
      ELSE [error |-> "none", scores |-> [i \in DOMAIN X |-> Forward(p, X[i])]]

(* Model.predict: a forward pass over the rows with the current parameters,
   whatever the life-cycle state of the model; without a model object the name
   'model' is undefined *)
Predict(state, p, X) ==
    IF state = "Uninitialized"
      THEN [error |-> "NameError", scores |-> <<>>]
      ELSE [error |-> "none", scores |-> [i \in DOMAIN X |-> Forward(p, X[i])]]

BinStart == 0

BinStop == 100

BinStep == 5

(* np.arange(start, stop, step): ceil((stop - start) / step) values, stop excluded *)
Arange(start, stop, step) ==
    [i \in 1..CeilDiv(stop - start, step) |-> start + (i - 1) * step]

binning == Arange(BinStart, BinStop, BinStep)

(* np.histogram: bin i is [e_i, e_i+1), the last one closed; a value outside
   [e_1, e_last] is in no bin *)
InBin(edges, i, v) ==
    /\ edges[i] <= v
    /\ \/ v < edges[i + 1]
       \/ i = Len(edges) - 1 /\ v = edges[i + 1]

Histogram(values, edges) ==
    [i \in 1..(Len(edges) - 1) |->
        Cardinality({k \in DOMAIN values : InBin(edges, i, values[k])})]

WithPredictionsTruncated(d, scores) ==
    [i \in 1..(Len(d) - 1) |->
        [idx |-> d[i].idx, QG_mult |-> d[i].QG_mult, QG_ptD |-> d[i].QG_ptD,
         QG_axis2 |-> d[i].QG_axis2, target |-> d[i].target,
         predictions |-> scores[i]]]

(* test.loc[:,'predictions'] = scores *)
WithPredictions(d, scores) ==
    [i \in DOMAIN d |->
        [idx |-> d[i].idx, QG_mult |-> d[i].QG_mult, QG_ptD |-> d[i].QG_ptD,
         QG_axis2 |-> d[i].QG_axis2, target |-> d[i].target,
         predictions |-> scores[i]]]

ScoresOfClass(d, label) ==
    LET keep(r) == r.target = label
        sel == SelectSeq(d, keep)
    IN  [i \in DOMAIN sel |-> sel[i].predictions]

PredictAndPlot ==
    /\ Running("cell14")
    /\ executed' = Append(executed, "cell14")
    /\ LET out == Predict(classifier, params, FeatureMatrix(test))
       IN  IF out.error # "none"
             THEN /\ Raise(out.error)
                  /\ UNCHANGED <<test, hist, classifier>>
             ELSE /\ test' = WithPredictions(test, out.scores)
                  /\ hist' = [Gluons |-> Histogram(ScoresOfClass(test', 1), binning),
                              Quarks |-> Histogram(ScoresOfClass(test', 0), binning)]
                  /\ classifier' = "Evaluable"
                  /\ pc' = NextCell("cell14")
                  /\ error' = error
    /\ UNCHANGED <<resource, file, data, df_, train_idx, train_x, train_y,
                   class_weights, params, epoch, roc, warnings>>

---------------------------------------------------------------------------
(* Cell 15: roc_curve, auc, savefig *)

RECURSIVE Gcd(_, _)
Gcd(a, b) == IF b = 0 THEN a ELSE Gcd(b, a % b)

Abs(a) == IF a < 0 THEN -a ELSE a

IsNaN(q) == q[2] = 0

(* A real in lowest terms; anything over 0 is nan *)
Rat(n, d) ==
    IF d = 0 THEN <<0, 0>>
    ELSE LET g == Gcd(Abs(n), Abs(d)) IN <<n \div g, d \div g>>

RatAdd(p, q) == Rat(p[1] * q[2] + q[1] * p[2], p[2] * q[2])

RatSub(p, q) == Rat(p[1] * q[2] - q[1] * p[2], p[2] * q[2])

RatMul(p, q) == Rat(p[1] * q[1], p[2] * q[2])

RatLeq(p, q) == p[1] * q[2] <= q[1] * p[2]

(* The distinct scores, decreasing *)
RECURSIVE Decreasing(_)
Decreasing(S) ==
    IF S = {} THEN <<>>
    ELSE LET m == CHOOSE x \in S : \A y \in S : y <= x
         IN  <<m>> \o Decreasing(S \ {m})

(* optimal_idxs of drop_intermediate: the end points and every point where the
   second difference of fps or tps is not zero *)
DropIntermediate(c) ==
    LET keep == {k \in DOMAIN c :
                   \/ k = 1
                   \/ k = Len(c)
                   \/ c[k + 1].fps - 2 * c[k].fps + c[k - 1].fps # 0
                   \/ c[k + 1].tps - 2 * c[k].tps + c[k - 1].tps # 0}
        idx == SortedSeq(keep)
    IN  IF Len(c) > 2 THEN [i \in DOMAIN idx |-> c[idx[i]]] ELSE c

RocCurveZeroWhenUndefined(y_true, y_score) ==
    LET thr == Decreasing(Range(y_score))
        counts == [k \in DOMAIN thr |->
                     [tps |-> Cardinality({i \in DOMAIN y_true :
                                  y_score[i] >= thr[k] /\ y_true[i] = 1}),
                      fps |-> Cardinality({i \in DOMAIN y_true :
                                  y_score[i] >= thr[k] /\ y_true[i] # 1})]]
        pts == <<[tps |-> 0, fps |-> 0]>> \o DropIntermediate(counts)
        P == pts[Len(pts)].tps
        N == pts[Len(pts)].fps
    IN  [fpr |-> [k \in DOMAIN pts |-> IF N = 0 THEN <<0, 1>> ELSE Rat(pts[k].fps, N)],
         tpr |-> [k \in DOMAIN pts |-> IF P = 0 THEN <<0, 1>> ELSE Rat(pts[k].tps, P)],
         warned |-> {}]

(* roc_curve: cumulative true and false positives at each distinct score, taken
   in decreasing order, with the origin prepended; a rate whose class is absent
   is an array of nan and an UndefinedMetricWarning is issued *)
RocCurve(y_true, y_score) ==
    LET thr == Decreasing(Range(y_score))
        counts == [k \in DOMAIN thr |->
                     [tps |-> Cardinality({i \in DOMAIN y_true :
                                  y_score[i] >= thr[k] /\ y_true[i] = 1}),
                      fps |-> Cardinality({i \in DOMAIN y_true :
                                  y_score[i] >= thr[k] /\ y_true[i] # 1})]]
        pts == <<[tps |-> 0, fps |-> 0]>> \o DropIntermediate(counts)
        P == pts[Len(pts)].tps
        N == pts[Len(pts)].fps
    IN  [fpr |-> [k \in DOMAIN pts |-> Rat(pts[k].fps, N)],
         tpr |-> [k \in DOMAIN pts |-> Rat(pts[k].tps, P)],
         warned |-> IF N = 0 \/ P = 0 THEN {"UndefinedMetricWarning"} ELSE {}]

(* auc: the trapezoidal rule over the curve; nan propagates *)
RECURSIVE Trapz(_, _, _)
Trapz(x, y, k) ==
    IF k >= Len(x) THEN <<0, 1>>
    ELSE RatAdd(RatMul(RatMul(RatSub(x[k + 1], x[k]), RatAdd(y[k + 1], y[k])), <<1, 2>>),
                Trapz(x, y, k + 1))

Auc(x, y) == Trapz(x, y, 1)

RocCurveAndAuc ==
    /\ Running("cell15")
    /\ executed' = Append(executed, "cell15")
    /\ LET y_true == Targets(test)
           y_score == [i \in DOMAIN test |-> test[i].predictions]
           c == RocCurve(y_true, y_score)
       IN  /\ roc' = [fpr |-> c.fpr, tpr |-> c.tpr, roc_auc |-> Auc(c.fpr, c.tpr),
                      saved |-> TRUE]
           /\ warnings' = warnings \cup c.warned
    /\ pc' = NextCell("cell15")
    /\ UNCHANGED <<resource, file, data, df_, train_idx, train_x, train_y, test,
                   class_weights, classifier, params, epoch, hist, error>>

Next ==
    \/ Download
    \/ ReadCsv
    \/ Clean
    \/ PlotFeatures
    \/ SplitAndWeight
    \/ DefineAndCompile
    \/ FitBegin
    \/ FitEpoch
    \/ FitReturn
    \/ PredictAndPlot
    \/ RocCurveAndAuc

Spec == Init /\ [][Next]_vars

---------------------------------------------------------------------------
(* Properties *)

Ran(c) == c \in Range(executed)

(* train_test_split returned: cell 10 got past line 155 *)
SplitDone == Ran("cell10") /\ error # "ValueError"

Idx(d) == {d[i].idx : i \in DOMAIN d}

BothClasses(y) == 0 \in Range(y) /\ 1 \in Range(y)

(* C1: once cell 6 has cleaned the data, every row of df_, of Train and of Test
   has a value in QG_mult, QG_ptD, QG_axis2 and target, in every later state. *)
C1_NoMissingAfterCleaning ==
    Ran("cell6") =>
        /\ \A i \in DOMAIN df_ : ~HasNaN(df_[i])
        /\ \A i \in DOMAIN test : ~HasNaN(test[i])
        /\ \A i \in DOMAIN train_x : \A c \in Range(Features) : train_x[i][c] # NaN
        /\ \A i \in DOMAIN train_y : train_y[i] # NaN

C1_Witness ==
    /\ pc = "done"
    /\ Len(df_) < Len(data)
    /\ Len(test) > 0

(* C2: when train_test_split has returned, every row of df_ is in exactly one of
   Train and Test, and the two sizes add up to the size of df_. *)
C2_SplitIsPartition ==
    SplitDone =>
        /\ Range(train_idx) \cap Idx(test) = {}
        /\ Range(train_idx) \cup Idx(test) = Idx(df_)
        /\ Cardinality(Range(train_idx)) = Len(train_idx)
        /\ Cardinality(Idx(test)) = Len(test)
        /\ Len(train_idx) + Len(test) = Len(df_)
        /\ Len(train_y) = Len(train_idx)
        /\ Len(train_x) = Len(train_idx)

C2_Witness ==
    /\ SplitDone
    /\ Len(test) >= 2
    /\ Len(train_idx) >= 2

(* C3: when both classes occur in Train, the class weights satisfy
   weight(0) * count(0) = weight(1) * count(1), and the class with fewer Train rows
   has the strictly larger weight. *)
C3_WeightsBalanceClasses ==
    (SplitDone /\ BothClasses(train_y)) =>
        /\ class_weights.kind = "dict"
        /\ LET c0 == Count(train_y, 0)
               c1 == Count(train_y, 1)
               w0 == class_weights.w[0]
               w1 == class_weights.w[1]
           IN  /\ w0[2] > 0 /\ w1[2] > 0
               /\ RatMul(w0, <<c0, 1>>) = RatMul(w1, <<c1, 1>>)
               /\ c0 < c1 => ~RatLeq(w0, w1)
               /\ c1 < c0 => ~RatLeq(w1, w0)

C3_Witness ==
    /\ class_weights.kind = "dict"
    /\ Count(train_y, 0) < Count(train_y, 1)

(* C4: when a label class is missing from Train, cell 10 ends in an exception:
   no class-weight mapping exists, the run stays at cell 10 and training never
   starts. *)
C4_MissingClassAborts ==
    (SplitDone /\ ~BothClasses(train_y)) =>
        /\ error = "IndexError"
        /\ class_weights.kind # "dict"
        /\ pc = "cell10"
        /\ ~Ran("cell11") /\ ~Ran("cell12")
        /\ classifier = "Uninitialized"
        /\ epoch = 0

C4_Witness ==
    /\ error = "IndexError"
    /\ Len(train_y) >= 2

ClassifierStep ==
    \/ classifier' = classifier
    \/ <<classifier, classifier'>> \in
          {<<"Uninitialized", "Compiled">>, <<"Compiled", "Trained">>,
           <<"Trained", "Evaluable">>}

UntrainedPredictFails ==
    classifier \in {"Uninitialized", "Compiled"} =>
        LET out == Predict(classifier, params, FeatureMatrix(test))
        IN  out.error # "none" /\ out.scores = <<>>

UntrainedPredictUnguarded ==
    /\ classifier = "Uninitialized" =>
          Predict(classifier, params, FeatureMatrix(test)).error # "none"
    /\ classifier = "Compiled" =>
          LET out == Predict(classifier, params, FeatureMatrix(test))
          IN  out.error = "none" /\ Len(out.scores) = Len(test)

(* C5 as stated: the classifier moves only along Uninitialized -> Compiled ->
   Trained -> Evaluable, and predict fails, returning no scores, in every state
   before training has completed. *)
C5_PredictBeforeTrainingFails ==
    /\ [][ClassifierStep]_vars
    /\ [](UntrainedPredictFails)

(* C5 amended: the classifier moves only along Uninitialized -> Compiled ->
   Trained -> Evaluable, the notebook calls predict only on a Trained model after
   all epochs, and predict has no state guard: on a Compiled model it returns one
   score per row from the current parameters (it fails only while no model
   exists). *)
C5_PredictOnlyAfterTraining ==
    /\ [][ClassifierStep]_vars
    /\ [][Ran("cell14")' /\ ~Ran("cell14") => classifier = "Trained" /\ epoch = Epochs]_vars
    /\ [](UntrainedPredictUnguarded)

C5_Witness ==
    /\ classifier = "Evaluable"
    /\ Len(test) > 0
    /\ \A i \in DOMAIN test : "predictions" \in DOMAIN test[i]

SingleClass(y) == ~BothClasses(y)

(* C6: when the Test labels hold a single class, cell 15 issues an
   UndefinedMetricWarning and roc_auc is nan, not a number; with both classes
   present roc_auc is a number in [0,1] and no warning is issued. *)
C6_SingleClassAucUndefined ==
    Ran("cell15") =>
        /\ SingleClass(Targets(test)) =>
              /\ "UndefinedMetricWarning" \in warnings
              /\ IsNaN(roc.roc_auc)
        /\ BothClasses(Targets(test)) =>
              /\ warnings = {}
              /\ ~IsNaN(roc.roc_auc)
              /\ RatLeq(<<0, 1>>, roc.roc_auc) /\ RatLeq(roc.roc_auc, <<1, 1>>)

C6_Witness ==
    /\ Ran("cell15")
    /\ SingleClass(Targets(test))
    /\ roc.saved

(* C7: training, once started, ends after exactly 20 epochs: while model.fit runs
   it can always take its next step, every step below 20 epochs completes one more
   epoch and nothing else, fit returns only at 20, and the classifier becomes
   Trained at that return and not before.  (The epoch count rises with every step
   and is bounded by 20, so fit returns.) *)
C7_TrainingRunsTwentyEpochs ==
    /\ [](pc = "cell12_epochs" => error = "none" /\ ENABLED (FitEpoch \/ FitReturn))
    /\ [][pc = "cell12_epochs" =>
            \/ /\ epoch < Epochs
               /\ epoch' = epoch + 1
               /\ pc' = pc
               /\ classifier' = classifier
            \/ /\ epoch = Epochs
               /\ epoch' = epoch
               /\ classifier' = "Trained"
               /\ pc' = NextCell("cell12")]_vars
    /\ [][epoch' # epoch => pc = "cell12_epochs"]_vars
    /\ [](classifier \in {"Trained", "Evaluable"} => epoch = Epochs)

C7_Witness ==
    /\ classifier = "Trained"
    /\ epoch = Epochs
    /\ params.updates = Epochs

StageOf(c) ==
    CASE c \in {"cell2", "cell4"} -> 1      \* Loader
      [] c \in {"cell6", "cell8"} -> 2      \* Cleaner and the feature plots
      [] c = "cell10" -> 3                   \* Splitter
      [] c \in {"cell11", "cell12"} -> 4    \* Classifier (train)
      [] c = "cell14" -> 5                   \* Classifier (predict)
      [] c = "cell15" -> 6                   \* Evaluator

(* C8: the cells, and so the stages Loader, Cleaner, Splitter, train, predict,
   Evaluator, start in notebook order, each at most once and only when the run has
   reached it; after an exception nothing runs. *)
C8_StagesInOrder ==
    /\ [][/\ error = "none"
          /\ \/ executed' = executed
             \/ /\ Len(executed) < Len(CellOrder)
                /\ executed' = Append(executed, CellOrder[Len(executed) + 1])
                /\ pc = CellOrder[Len(executed) + 1]]_vars
    /\ [](\A i, j \in DOMAIN executed : i < j => StageOf(executed[i]) <= StageOf(executed[j]))
    /\ [](pc = "done" => executed = CellOrder /\ error = "none")

C8_Witness ==
    /\ pc = "done"
    /\ executed = CellOrder
    /\ roc.saved

(* C9: cell 14 adds the field predictions to every Test row and changes nothing
   else of the rows, of the parameters, of Train or of df_; cell 15 leaves the
   table as it is. *)
C9_PredictOnlyAddsScores ==
    /\ [][pc = "cell14" =>
            /\ params' = params
            /\ train_x' = train_x /\ train_y' = train_y /\ train_idx' = train_idx
            /\ df_' = df_
            /\ Len(test') = Len(test)
            /\ \A i \in DOMAIN test :
                  /\ DOMAIN test'[i] = DOMAIN test[i] \cup {"predictions"}
                  /\ [f \in DOMAIN test[i] |-> test'[i][f]] = test[i]
                  /\ test'[i].predictions \in 0..ScoreScale]_vars
    /\ [][pc = "cell15" => test' = test /\ params' = params]_vars

C9_Witness ==
    /\ pc = "done"
    /\ Len(test) >= 2
    /\ \A i \in DOMAIN test : "predictions" \in DOMAIN test[i]

(* C10: the histogram bins cover [0,1]: every predicted score between 0 and 1 is
   in exactly one bin of the histogram of its class, so each histogram counts all
   the Test rows of its class. *)
C10_EveryScoreBinned ==
    Ran("cell14") =>
        /\ \A i \in DOMAIN test :
              Cardinality({b \in 1..(Len(binning) - 1) :
                              InBin(binning, b, test[i].predictions)}) = 1
        /\ SumSeq(hist.Gluons) = Len(ScoresOfClass(test, 1))
        /\ SumSeq(hist.Quarks) = Len(ScoresOfClass(test, 0))


=============================================================================
